---- MODULE Spec2Model ----
(***************************************************************************)
(* Model of searx's search orchestrator (searx/search/__init__.py) and of  *)
(* its HTTP transport wrappers (searx/network/client.py).                  *)
(*                                                                         *)
(*   Spec          Search.search: bang check, answerers, fan-out and join  *)
(*   SpecTimeout   Search._get_requests on a wide range of timeouts        *)
(*   SpecTransport AsyncHTTPTransportFixed / AsyncProxyTransportFixed      *)
(***************************************************************************)
EXTENDS Integers, Sequences, FiniteSets, TLC

(***************************************************************************)
(* Bounds of the model.                                                    *)
(***************************************************************************)
NumEngines == 2
MaxDelay == 2
MaxAnswers == 2
MaxTimeout == 3
NumConns == 3
NumThreads == 2
MaxCalls == 2

\* Python's None where a number is expected (timeout_limit, max_request_timeout,
\* start_time, actual_timeout), and where an object is expected.
None == -1
NoneObj == "None"

Max(a, b) == IF a >= b THEN a ELSE b
Min(a, b) == IF a <= b THEN a ELSE b

VARIABLES
    \* ---- the query, the settings and the processors (inputs of one search)
    engine_timeout,       \* processor.engine.timeout of each engine
    suspended,            \* processor.extend_container_if_suspended(...) of each engine
    declines,             \* processor.get_params(...) returns None
    timeout_limit,        \* search_query.timeout_limit
    max_request_timeout,  \* settings['outgoing']['max_request_timeout']
    external_bang,        \* search_query.external_bang is set
    bang_url,             \* what get_bang_url(search_query) returns
    answerers_results,    \* what ask(search_query) returns
    \* ---- the Search object and the orchestrator's position
    pc,
    now,                  \* default_timer()
    start_time,
    actual_timeout,
    requests,             \* the list _get_requests returned
    \* ---- the ResultContainer
    redirect_url,
    container,            \* sequence of <<kind, results>> passed to extend
    unresponsive,         \* set of <<engine, reason>>
    \* ---- the worker threads
    th,                   \* state of each engine's thread
    th_timeout,           \* threads with _timeout = True
    tojoin,               \* threads of threading.enumerate() not joined yet
    cur,                  \* the thread being joined
    join_until,           \* the time at which the pending join gives up
    \* ---- history of the calls made (observation only)
    called,               \* methods of Search invoked
    asked,                \* engines whose get_params was called
    \* ---- the transport (client.py)
    variant,              \* which transport class: "direct" or "proxy"
    url,                  \* the origin of the request's URL
    retry,                \* the local variable retry of arequest
    tpc,                  \* the position of arequest
    attempts,             \* what each call of super().arequest did, in order
    evictions,            \* number of calls of close_connections_for_url
    pool,                 \* the connections of the transport's pool
    outcome,              \* what arequest gave its caller
    \* ---- one run of close_connections_for_url (client.py)
    ev_pc,                \* its position
    pool0,                \* the pool when it was called
    to_close,             \* connections_to_close not yet visited
    ev_cur,               \* the connection of the current turn of the loop
    closed,               \* connections whose aclose() returned
    close_warned,         \* connections whose aclose() raised a NetworkError
    \* ---- the module state of client.py and the threads that build transports
    init_pc,              \* the position of init()
    loop_pc,              \* the position of loop_thread()
    LOOP,                 \* the global LOOP
    serial,               \* calls of get_sslcontexts do not overlap
    SSLCONTEXTS,          \* the global SSLCONTEXTS: key -> context (None: no entry)
    ssl_builds,           \* number of httpx.create_ssl_context calls per key
    ssl_objs,             \* number of context objects created so far
    ct_pc,                \* position of each thread
    ct_key,               \* the key of the thread's call
    ct_ctx,               \* the context the thread has just created
    ct_result,            \* what get_sslcontexts returned to the thread
    ct_loop,              \* the loop the thread's transport was built with
    ct_calls,             \* number of transports the thread has built
    ssl_got,              \* every <<key, context>> get_sslcontexts has returned
    \* ---- SearchWithPlugins and the arguments of the threads
    hook_pc,              \* the position of SearchWithPlugins.search
    pre_search_ok,        \* what plugins.call(..., 'pre_search', ...) returns
    hooks,                \* the hooks called, in order
    ordered,              \* what get_ordered_results() returned
    th_args               \* <<engine, start_time, actual_timeout>> of each thread started

svars == <<engine_timeout, suspended, declines, timeout_limit, max_request_timeout,
           external_bang, bang_url, answerers_results, pc, now, start_time,
           actual_timeout, requests, redirect_url, container, unresponsive,
           th, th_timeout, tojoin, cur, join_until, called, asked>>
tvars == <<variant, url, retry, tpc, attempts, evictions, pool, outcome>>
pvars == <<ev_pc, pool0, to_close, ev_cur, closed, close_warned>>
cvars == <<init_pc, loop_pc, LOOP, serial, SSLCONTEXTS, ssl_builds, ssl_objs,
           ct_pc, ct_key, ct_ctx, ct_result, ct_loop, ct_calls, ssl_got>>
hvars == <<hook_pc, pre_search_ok, hooks, ordered, th_args>>
vars == <<svars, tvars, pvars, cvars, hvars>>

Engines == 1 .. NumEngines
\* search_query.engineref_list: every engine, in order
engineref_list == [i \in 1 .. NumEngines |-> i]

OptTimeouts == {None} \cup (0 .. MaxTimeout)

(***************************************************************************)
(* Search._get_requests                                                    *)
(***************************************************************************)
\* lines 86-104: the loop over engineref_list, from position i on
RECURSIVE GetRequestsLoop(_, _)
GetRequestsLoop(i, acc) ==
    IF i > Len(engineref_list) THEN acc
    ELSE LET name == engineref_list[i] IN
         IF suspended[name]
         THEN GetRequestsLoop(i + 1,
                [acc EXCEPT !.unresponsive = @ \cup {<<name, "suspended">>}])
         ELSE IF declines[name]
         THEN GetRequestsLoop(i + 1, [acc EXCEPT !.asked = @ \cup {name}])
         ELSE GetRequestsLoop(i + 1,
                [acc EXCEPT !.asked = @ \cup {name},
                            !.requests = Append(@, name),
                            !.default_timeout = Max(@, engine_timeout[name])])

\* lines 111-122 with the guards dropped: always min(default, query limit)
AdjustTimeoutIgnoringMax(default_timeout, query_timeout, max_timeout) ==
    IF query_timeout = None THEN default_timeout
    ELSE Min(default_timeout, query_timeout)

\* lines 107-122: adjust timeout
AdjustTimeout(default_timeout, query_timeout, max_timeout) ==
    IF max_timeout = None /\ query_timeout = None THEN default_timeout
    ELSE IF max_timeout = None /\ query_timeout # None
         THEN Min(default_timeout, query_timeout)
    ELSE IF max_timeout # None /\ query_timeout = None
         THEN Min(default_timeout, max_timeout)
    ELSE Min(query_timeout, max_timeout)

\* lines 78-127: what _get_requests returns and what it did on the way
GetRequestsResult ==
    LET r == GetRequestsLoop(1, [requests |-> <<>>, default_timeout |-> 0,
                                 asked |-> {}, unresponsive |-> {}])
    IN  [requests |-> r.requests,
         default_timeout |-> r.default_timeout,
         actual_timeout |-> AdjustTimeout(r.default_timeout, timeout_limit,
                                          max_request_timeout),
         asked |-> r.asked,
         unresponsive |-> r.unresponsive]

(***************************************************************************)
(* Search.search and the methods it calls                                  *)
(***************************************************************************)
BangUrls == {"https://bang.example/?q=query"}
AnswerResults == {"answer1", "answer2"}
SeqsUpTo(S, n) == UNION {[1 .. k -> S] : k \in 0 .. n}

\* isinstance(x, str)
IsStr(x) == x # NoneObj

\* th.is_alive()
IsAlive(e) == th[e] = "running"

\* lines 166-167: search() takes the start timestamp
Search ==
    /\ pc = "created"
    /\ hook_pc \in {"off", "super"}
    /\ start_time' = now
    /\ called' = called \cup {"search"}
    /\ pc' = "external_bang"
    /\ UNCHANGED <<engine_timeout, suspended, declines, timeout_limit,
                   max_request_timeout, external_bang, bang_url, answerers_results,
                   now, actual_timeout, requests, redirect_url, container,
                   unresponsive, th, th_timeout, tojoin, cur, join_until, asked>>
    /\ UNCHANGED <<tvars, pvars, cvars, hvars>>

\* lines 50-62 and 168: the bang check, which keeps going to the answerers
SearchExternalBangFallThrough ==
    /\ pc = "external_bang"
    /\ called' = called \cup {"search_external_bang"}
    /\ redirect_url' = IF external_bang THEN bang_url ELSE redirect_url
    /\ pc' = "answerers"
    /\ UNCHANGED <<engine_timeout, suspended, declines, timeout_limit,
                   max_request_timeout, external_bang, bang_url, answerers_results,
                   now, start_time, actual_timeout, requests, container,
                   unresponsive, th, th_timeout, tojoin, cur, join_until, asked>>
    /\ UNCHANGED <<tvars, pvars, cvars, hvars>>

\* lines 50-62 and 168: the bang check
SearchExternalBang ==
    /\ pc = "external_bang"
    /\ called' = called \cup {"search_external_bang"}
    /\ IF external_bang
       THEN /\ redirect_url' = bang_url
            /\ pc' = IF IsStr(bang_url) THEN "done" ELSE "answerers"
       ELSE /\ redirect_url' = redirect_url
            /\ pc' = "answerers"
    /\ UNCHANGED <<engine_timeout, suspended, declines, timeout_limit,
                   max_request_timeout, external_bang, bang_url, answerers_results,
                   now, start_time, actual_timeout, requests, container,
                   unresponsive, th, th_timeout, tojoin, cur, join_until, asked>>
    /\ UNCHANGED <<tvars, pvars, cvars, hvars>>

\* lines 72-73: result_container.extend('answer', results) for each of them
ExtendAnswers(c, rs) == c \o [i \in 1 .. Len(rs) |-> <<"answer", rs[i]>>]

\* lines 64-75 and 169: the answerers, which keep going to the standard search
SearchAnswerersFallThrough ==
    /\ pc = "answerers"
    /\ called' = called \cup {"search_answerers"}
    /\ container' = ExtendAnswers(container, answerers_results)
    /\ pc' = "search_standard"
    /\ UNCHANGED <<engine_timeout, suspended, declines, timeout_limit,
                   max_request_timeout, external_bang, bang_url, answerers_results,
                   now, start_time, actual_timeout, requests, redirect_url,
                   unresponsive, th, th_timeout, tojoin, cur, join_until, asked>>
    /\ UNCHANGED <<tvars, pvars, cvars, hvars>>

\* lines 64-75 and 169: the answerers
SearchAnswerers ==
    /\ pc = "answerers"
    /\ called' = called \cup {"search_answerers"}
    /\ IF answerers_results # <<>>
       THEN /\ container' = ExtendAnswers(container, answerers_results)
            /\ pc' = "done"
       ELSE /\ container' = container
            /\ pc' = "search_standard"
    /\ UNCHANGED <<engine_timeout, suspended, declines, timeout_limit,
                   max_request_timeout, external_bang, bang_url, answerers_results,
                   now, start_time, actual_timeout, requests, redirect_url,
                   unresponsive, th, th_timeout, tojoin, cur, join_until, asked>>
    /\ UNCHANGED <<tvars, pvars, cvars, hvars>>

\* lines 152-163, with _get_requests (lines 78-127) run inside it
SearchStandard ==
    /\ pc = "search_standard"
    /\ called' = called \cup {"search_standard"}
    /\ LET r == GetRequestsResult IN
        /\ requests' = r.requests
        /\ actual_timeout' = r.actual_timeout
        /\ asked' = asked \cup r.asked
        /\ unresponsive' = unresponsive \cup r.unresponsive
        /\ pc' = IF r.requests # <<>> THEN "spawn" ELSE "done"
    /\ UNCHANGED <<engine_timeout, suspended, declines, timeout_limit,
                   max_request_timeout, external_bang, bang_url, answerers_results,
                   now, start_time, redirect_url, container,
                   th, th_timeout, tojoin, cur, join_until>>
    /\ UNCHANGED <<tvars, pvars, cvars, hvars>>

(***************************************************************************)
(* Search.search_multiple_requests: fan-out, then join with a deadline     *)
(***************************************************************************)
\* the requests whose thread was not created yet, in the order of the list
Unspawned == SelectSeq(requests, LAMBDA e : th[e] = "none")

\* lines 133-141 with default_timer() passed instead of self.start_time
SpawnWorkerOwnStart ==
    /\ pc = "spawn"
    /\ Unspawned # <<>>
    /\ th' = [th EXCEPT ![Head(Unspawned)] = "running"]
    /\ th_args' = Append(th_args, <<Head(Unspawned), now, actual_timeout>>)
    /\ pc' = IF Len(Unspawned) = 1 THEN "enumerate" ELSE "spawn"
    /\ UNCHANGED <<engine_timeout, suspended, declines, timeout_limit,
                   max_request_timeout, external_bang, bang_url, answerers_results,
                   now, start_time, actual_timeout, requests, redirect_url,
                   container, unresponsive, th_timeout, tojoin, cur, join_until,
                   called, asked>>
    /\ UNCHANGED <<tvars, pvars, cvars, hook_pc, pre_search_ok, hooks, ordered>>

\* lines 133-141: one turn of the loop that creates and starts the threads
SpawnWorker ==
    /\ pc = "spawn"
    /\ Unspawned # <<>>
    /\ th' = [th EXCEPT ![Head(Unspawned)] = "running"]
    /\ th_args' = Append(th_args, <<Head(Unspawned), start_time, actual_timeout>>)
    /\ pc' = IF Len(Unspawned) = 1 THEN "enumerate" ELSE "spawn"
    /\ UNCHANGED <<engine_timeout, suspended, declines, timeout_limit,
                   max_request_timeout, external_bang, bang_url, answerers_results,
                   now, start_time, actual_timeout, requests, redirect_url,
                   container, unresponsive, th_timeout, tojoin, cur, join_until,
                   called, asked>>
    /\ UNCHANGED <<tvars, pvars, cvars, hook_pc, pre_search_ok, hooks, ordered>>

\* line 143: threading.enumerate() lists the threads that are alive
Enumerate ==
    /\ pc = "enumerate"
    /\ tojoin' = {e \in Engines : IsAlive(e)}
    /\ pc' = IF tojoin' = {} THEN "done" ELSE "join"
    /\ UNCHANGED <<engine_timeout, suspended, declines, timeout_limit,
                   max_request_timeout, external_bang, bang_url, answerers_results,
                   now, start_time, actual_timeout, requests, redirect_url,
                   container, unresponsive, th, th_timeout, cur, join_until,
                   called, asked>>
    /\ UNCHANGED <<tvars, pvars, cvars, hvars>>

\* line 145 with a timeout per worker: the time already spent is not deducted
RemainingTimePerWorker == Max(0, actual_timeout)

\* line 145: remaining_time
RemainingTime == Max(0, actual_timeout - (now - start_time))

\* lines 144-146: the next thread of the list is joined for the remaining time
JoinStart ==
    /\ pc = "join"
    /\ \E e \in tojoin :
        /\ cur' = e
        /\ tojoin' = tojoin \ {e}
    /\ join_until' = now + RemainingTime
    /\ pc' = "joining"
    /\ UNCHANGED <<engine_timeout, suspended, declines, timeout_limit,
                   max_request_timeout, external_bang, bang_url, answerers_results,
                   now, start_time, actual_timeout, requests, redirect_url,
                   container, unresponsive, th, th_timeout, called, asked>>
    /\ UNCHANGED <<tvars, pvars, cvars, hvars>>

\* line 146 as th.join(): the join returns only when the thread has ended
JoinReturnWaitsForEnd ==
    /\ pc = "joining"
    /\ ~IsAlive(cur)
    /\ pc' = "is_alive"
    /\ UNCHANGED <<engine_timeout, suspended, declines, timeout_limit,
                   max_request_timeout, external_bang, bang_url, answerers_results,
                   now, start_time, actual_timeout, requests, redirect_url,
                   container, unresponsive, th, th_timeout, tojoin, cur, join_until,
                   called, asked>>
    /\ UNCHANGED <<tvars, pvars, cvars, hvars>>

\* line 146: th.join(remaining_time) returns: the thread ended or the time is up
JoinReturn ==
    /\ pc = "joining"
    /\ ~IsAlive(cur) \/ now >= join_until
    /\ pc' = "is_alive"
    /\ UNCHANGED <<engine_timeout, suspended, declines, timeout_limit,
                   max_request_timeout, external_bang, bang_url, answerers_results,
                   now, start_time, actual_timeout, requests, redirect_url,
                   container, unresponsive, th, th_timeout, tojoin, cur, join_until,
                   called, asked>>
    /\ UNCHANGED <<tvars, pvars, cvars, hvars>>

\* lines 147-150 with line 149 left out: the container is not told
CheckAliveForgetsRecord ==
    /\ pc = "is_alive"
    /\ th_timeout' = IF IsAlive(cur) THEN th_timeout \cup {cur} ELSE th_timeout
    /\ pc' = IF tojoin = {} THEN "done" ELSE "join"
    /\ UNCHANGED <<engine_timeout, suspended, declines, timeout_limit,
                   max_request_timeout, external_bang, bang_url, answerers_results,
                   now, start_time, actual_timeout, requests, redirect_url,
                   container, unresponsive, th, tojoin, cur, join_until, called,
                   asked>>
    /\ UNCHANGED <<tvars, pvars, cvars, hvars>>

\* lines 147-150 without the is_alive() test: every joined thread is marked
CheckAliveMarksAll ==
    /\ pc = "is_alive"
    /\ th_timeout' = th_timeout \cup {cur}
    /\ unresponsive' = unresponsive \cup {<<cur, "timeout">>}
    /\ pc' = IF tojoin = {} THEN "done" ELSE "join"
    /\ UNCHANGED <<engine_timeout, suspended, declines, timeout_limit,
                   max_request_timeout, external_bang, bang_url, answerers_results,
                   now, start_time, actual_timeout, requests, redirect_url,
                   container, th, tojoin, cur, join_until, called, asked>>
    /\ UNCHANGED <<tvars, pvars, cvars, hvars>>

\* lines 147-150: a thread still alive after its join is recorded as timed out
CheckAlive ==
    /\ pc = "is_alive"
    /\ IF IsAlive(cur)
       THEN /\ th_timeout' = th_timeout \cup {cur}
            /\ unresponsive' = unresponsive \cup {<<cur, "timeout">>}
       ELSE UNCHANGED <<th_timeout, unresponsive>>
    /\ pc' = IF tojoin = {} THEN "done" ELSE "join"
    /\ UNCHANGED <<engine_timeout, suspended, declines, timeout_limit,
                   max_request_timeout, external_bang, bang_url, answerers_results,
                   now, start_time, actual_timeout, requests, redirect_url,
                   container, th, tojoin, cur, join_until, called, asked>>
    /\ UNCHANGED <<tvars, pvars, cvars, hvars>>

(***************************************************************************)
(* The workers: PROCESSORS[engine_name].search, run in its own thread      *)
(* (line 135).  It writes its outcome into the shared container and ends.  *)
(***************************************************************************)
\* the processor got results and extends the container with them
WorkerResults(e) ==
    /\ th[e] = "running"
    /\ container' = Append(container, <<e, "results">>)
    /\ th' = [th EXCEPT ![e] = "ended"]
    /\ UNCHANGED <<engine_timeout, suspended, declines, timeout_limit,
                   max_request_timeout, external_bang, bang_url, answerers_results,
                   pc, now, start_time, actual_timeout, requests, redirect_url,
                   unresponsive, th_timeout, tojoin, cur, join_until, called, asked>>
    /\ UNCHANGED <<tvars, pvars, cvars, hvars>>

\* the processor caught an exception of the engine and records it
WorkerException(e) ==
    /\ th[e] = "running"
    /\ unresponsive' = unresponsive \cup {<<e, "exception">>}
    /\ th' = [th EXCEPT ![e] = "ended"]
    /\ UNCHANGED <<engine_timeout, suspended, declines, timeout_limit,
                   max_request_timeout, external_bang, bang_url, answerers_results,
                   pc, now, start_time, actual_timeout, requests, redirect_url,
                   container, th_timeout, tojoin, cur, join_until, called, asked>>
    /\ UNCHANGED <<tvars, pvars, cvars, hvars>>

(***************************************************************************)
(* Time.  default_timer() advances while the processors are asked for      *)
(* their parameters and while the orchestrator is blocked in a join; a     *)
(* join whose time is up returns before more time passes.                  *)
(***************************************************************************)
Tick ==
    /\ \/ pc = "search_standard" /\ now - start_time < MaxDelay
       \/ pc = "joining" /\ IsAlive(cur) /\ now < join_until
    /\ now' = now + 1
    /\ UNCHANGED <<engine_timeout, suspended, declines, timeout_limit,
                   max_request_timeout, external_bang, bang_url, answerers_results,
                   pc, start_time, actual_timeout, requests, redirect_url,
                   container, unresponsive, th, th_timeout, tojoin, cur, join_until,
                   called, asked>>
    /\ UNCHANGED <<tvars, pvars, cvars, hvars>>

\* no request is in the transport during a search
TransportIdle ==
    /\ variant = "direct" /\ url = "a.example:443" /\ retry = 0 /\ tpc = "idle"
    /\ attempts = <<>> /\ evictions = 0 /\ pool = {}
    /\ outcome = [kind |-> "none", exc |-> NoneObj, attempt |-> 0]

\* close_connections_for_url is not running
PoolIdle ==
    /\ ev_pc = "idle" /\ pool0 = {} /\ to_close = {} /\ ev_cur = 0
    /\ closed = {} /\ close_warned = {}

\* client.py is not looked at: no thread builds a transport
ClientIdle ==
    /\ init_pc = "idle" /\ loop_pc = "idle" /\ LOOP = NoneObj /\ serial = TRUE
    /\ SSLCONTEXTS = <<>> /\ ssl_builds = <<>> /\ ssl_objs = 0
    /\ ct_pc = <<>> /\ ct_key = <<>> /\ ct_ctx = <<>> /\ ct_result = <<>>
    /\ ct_loop = <<>> /\ ct_calls = <<>> /\ ssl_got = {}

\* a plain Search: no plugin hook is called
HooksOff ==
    /\ hook_pc = "off" /\ pre_search_ok = TRUE /\ hooks = <<>> /\ ordered = <<>>

\* the state of a Search object after __init__ (lines 42-48)
SearchCreated ==
    /\ pc = "created"
    /\ now = 1
    /\ start_time = None
    /\ actual_timeout = None
    /\ requests = <<>>
    /\ redirect_url = NoneObj
    /\ container = <<>>
    /\ unresponsive = {}
    /\ th = [e \in Engines |-> "none"]
    /\ th_timeout = {}
    /\ tojoin = {}
    /\ cur = 1
    /\ join_until = 0
    /\ called = {}
    /\ asked = {}
    /\ th_args = <<>>

EngineTimeouts == {1, 2}
QueryTimeouts == {None, 1}
MaxRequestTimeouts == {None, 2}

Init ==
    /\ engine_timeout \in [Engines -> EngineTimeouts]
    /\ suspended \in [Engines -> BOOLEAN]
    /\ declines \in [Engines -> BOOLEAN]
    /\ \A e \in Engines : ~(suspended[e] /\ declines[e])
    /\ timeout_limit \in QueryTimeouts
    /\ max_request_timeout \in MaxRequestTimeouts
    /\ external_bang \in BOOLEAN
    /\ bang_url \in {NoneObj} \cup BangUrls
    /\ ~external_bang => bang_url = NoneObj
    /\ answerers_results \in SeqsUpTo(AnswerResults, MaxAnswers)
    /\ SearchCreated
    /\ TransportIdle
    /\ PoolIdle
    /\ ClientIdle
    /\ HooksOff

Next ==
    \/ Search
    \/ SearchExternalBang
    \/ SearchAnswerers
    \/ SearchStandard
    \/ SpawnWorker
    \/ Enumerate
    \/ JoinStart
    \/ JoinReturn
    \/ CheckAlive
    \/ \E e \in Engines : WorkerResults(e)
    \/ \E e \in Engines : WorkerException(e)
    \/ Tick

Spec == Init /\ [][Next]_vars

(***************************************************************************)
(* SpecTimeout: _get_requests alone, entered from search_standard, with    *)
(* the engine timeouts, the query limit and the ceiling drawn from         *)
(* 0 .. MaxTimeout (limit and ceiling possibly None).                      *)
(***************************************************************************)
InitTimeout ==
    /\ engine_timeout \in [Engines -> 0 .. MaxTimeout]
    /\ suspended \in [Engines -> BOOLEAN]
    /\ declines \in [Engines -> BOOLEAN]
    /\ \A e \in Engines : ~(suspended[e] /\ declines[e])
    /\ timeout_limit \in OptTimeouts
    /\ max_request_timeout \in OptTimeouts
    /\ external_bang = FALSE
    /\ bang_url = NoneObj
    /\ answerers_results = <<>>
    /\ pc = "search_standard"
    /\ now = 1
    /\ start_time = 1
    /\ actual_timeout = None
    /\ requests = <<>>
    /\ redirect_url = NoneObj
    /\ container = <<>>
    /\ unresponsive = {}
    /\ th = [e \in Engines |-> "none"]
    /\ th_timeout = {}
    /\ tojoin = {}
    /\ cur = 1
    /\ join_until = 0
    /\ called = {"search", "search_external_bang", "search_answerers"}
    /\ asked = {}
    /\ th_args = <<>>
    /\ TransportIdle
    /\ PoolIdle
    /\ ClientIdle
    /\ HooksOff

NextTimeout == SearchStandard

SpecTimeout == InitTimeout /\ [][NextTimeout]_vars

(***************************************************************************)
(* Properties of the search orchestrator                                   *)
(***************************************************************************)
SetMax(S) == CHOOSE x \in S : \A y \in S : y <= x

\* the engines that are neither suspended nor decline the query
Accepted == {e \in Engines : ~suspended[e] /\ ~declines[e]}
\* D: the max of the accepted engines' timeouts, 0 when there is none
AcceptedMax == SetMax({0} \cup {engine_timeout[e] : e \in Accepted})

GetRequestsReturned == "search_standard" \in called

\* C1: once _get_requests has returned, actual_timeout is D when neither the query
\* limit Q nor the ceiling M is set, min(D, M) when only M is, min(D, Q) when only
\* Q is and min(Q, M) when both are; so it exceeds neither Q nor M when set.
C1_ActualTimeout ==
    GetRequestsReturned =>
        LET D == AcceptedMax
            Q == timeout_limit
            M == max_request_timeout
        IN  /\ (Q = None /\ M = None) => actual_timeout = D
            /\ (Q = None /\ M # None) => actual_timeout = Min(D, M)
            /\ (Q # None /\ M = None) => actual_timeout = Min(D, Q)
            /\ (Q # None /\ M # None) => actual_timeout = Min(Q, M)
            /\ Q # None => actual_timeout <= Q
            /\ M # None => actual_timeout <= M

\* both bounds set and both above the default: the result is min(Q, M), above D
C1_Witness ==
    /\ GetRequestsReturned
    /\ AcceptedMax = 1
    /\ timeout_limit = 3
    /\ max_request_timeout = 2
    /\ actual_timeout = 2

NoEngineContacted ==
    /\ asked = {}
    /\ requests = <<>>
    /\ \A e \in Engines : th[e] = "none"

\* C2: when the bang matches (external_bang set, get_bang_url gives a string), the
\* bang check leaves that non-empty URL in redirect_url and search() is done:
\* neither search_answerers nor search_standard is called, no processor is asked
\* for parameters, no worker is spawned; and whenever redirect_url holds a URL no
\* engine has been contacted.
C2_BangShortCircuits ==
    /\ (external_bang /\ IsStr(bang_url) /\ "search_external_bang" \in called) =>
          /\ redirect_url = bang_url
          /\ redirect_url \notin {NoneObj, ""}
          /\ pc = "done"
          /\ "search_answerers" \notin called
          /\ "search_standard" \notin called
          /\ NoEngineContacted
    /\ IsStr(redirect_url) => NoEngineContacted

C2_Witness ==
    /\ pc = "done"
    /\ external_bang
    /\ redirect_url \in BangUrls

\* C3: search_answerers is called only after a bang check that did not fire; when
\* the answerers gave a non-empty list, the container holds exactly these results,
\* each under the kind 'answer', search() is done, search_standard was not called
\* and no worker was spawned.
C3_AnswerersShortCircuit ==
    /\ "search_answerers" \in called =>
          /\ "search_external_bang" \in called
          /\ ~IsStr(redirect_url)
    /\ ("search_answerers" \in called /\ answerers_results # <<>>) =>
          /\ Len(container) = Len(answerers_results)
          /\ \A i \in 1 .. Len(answerers_results) :
                container[i] = <<"answer", answerers_results[i]>>
          /\ pc = "done"
          /\ "search_standard" \notin called
          /\ NoEngineContacted

C3_Witness ==
    /\ pc = "done"
    /\ "search_answerers" \in called
    /\ Len(answerers_results) = 2
    /\ Len(container) = 2

\* the absolute deadline of the query
Deadline == start_time + actual_timeout

Spawned == {e \in Engines : th[e] # "none"}

\* C4: the join phase is bounded by the one deadline start_time + actual_timeout:
\* at every moment of a join, whichever worker it is on and however many were
\* joined before, the time the join may still wait is
\* max(0, actual_timeout - (now - start_time)); so from the fan-out on the clock is
\* never past the later of the deadline and the time the fan-out began (at most
\* MaxDelay after start_time), also when workers never finish.
C4_JoinBoundedByDeadline ==
    /\ pc = "joining" =>
          join_until - now = Max(0, actual_timeout - (now - start_time))
    /\ Spawned # {} => now <= Max(Deadline, start_time + MaxDelay)

\* the orchestrator is back exactly at the deadline while both workers still run
C4_Witness ==
    /\ pc = "done"
    /\ actual_timeout > 0
    /\ now = Deadline
    /\ Cardinality({e \in Engines : IsAlive(e)}) >= 2
    /\ Cardinality(th_timeout) >= 2

\* C5: when search() has returned, every worker still running has been marked
\* timed out and (engine, 'timeout') is in the container; the step that tests a
\* joined worker marks and records it when it is alive, and leaves it running.
C5_StateInv ==
    /\ pc = "done" => \A e \in Engines : IsAlive(e) =>
            /\ e \in th_timeout
            /\ <<e, "timeout">> \in unresponsive
    /\ \A e \in th_timeout : e \in Spawned /\ <<e, "timeout">> \in unresponsive

C5_TimedOutWorkersRecorded ==
    /\ []C5_StateInv
    /\ [][(pc = "is_alive" /\ pc' # "is_alive" /\ IsAlive(cur)) =>
            /\ cur \in th_timeout'
            /\ <<cur, "timeout">> \in unresponsive'
            /\ th' = th]_vars

\* search() has returned, a worker marked timed out is still running, and another
\* one that was marked has gone on to its end
C5_Witness ==
    /\ pc = "done"
    /\ \E e \in th_timeout : IsAlive(e)
    /\ \E e \in th_timeout : th[e] = "ended"

(***************************************************************************)
(* client.py: the exceptions and the two transports                        *)
(***************************************************************************)
\* the retry budget: retry = 2
RetryBudget == 2

Origins == {"a.example:443", "b.example:443"}
Conns == 1 .. NumConns
\* the origin of each connection a pool may hold
ConnOrigin(c) == IF c % 2 = 1 THEN "a.example:443" ELSE "b.example:443"
\* connection_pool._connections_for_origin(origin)
ConnectionsForOrigin(p, origin) == {c \in p : ConnOrigin(c) = origin}

\* lines 39-51: every connection of the URL's origin is removed from the pool
CloseConnectionsForUrl(p, u) == p \ ConnectionsForOrigin(p, u)

\* the exceptions super().arequest can raise, each with the classes it is an
\* instance of (python_socks: ProxyConnectionError is an OSError, ProxyTimeoutError
\* a TimeoutError, hence an OSError; httpcore: CloseError, WriteError, ReadError,
\* ConnectError are NetworkErrors, RemoteProtocolError and LocalProtocolError are
\* ProtocolErrors, ReadTimeout is a TimeoutException)
ClassesOf(k) ==
    CASE k = "socket.gaierror" -> {"OSError"}
      [] k = "python_socks.ProxyConnectionError" ->
            {"python_socks.ProxyConnectionError", "OSError"}
      [] k = "python_socks.ProxyTimeoutError" ->
            {"python_socks.ProxyTimeoutError", "OSError"}
      [] k = "python_socks.ProxyError" -> {"python_socks.ProxyError"}
      [] k = "httpcore.RemoteProtocolError" ->
            {"httpcore.RemoteProtocolError", "httpcore.ProtocolError"}
      [] k = "httpcore.LocalProtocolError" ->
            {"httpcore.LocalProtocolError", "httpcore.ProtocolError"}
      [] k = "httpcore.CloseError" -> {"httpcore.CloseError", "httpcore.NetworkError"}
      [] k = "httpcore.WriteError" -> {"httpcore.WriteError", "httpcore.NetworkError"}
      [] k = "httpcore.ReadError" -> {"httpcore.ReadError", "httpcore.NetworkError"}
      [] k = "httpcore.ConnectError" ->
            {"httpcore.ConnectError", "httpcore.NetworkError"}
      [] k = "httpcore.ReadTimeout" ->
            {"httpcore.ReadTimeout", "httpcore.TimeoutException"}

\* except (A, B, ...) matches an instance of any of the classes
Matches(k, classes) == ClassesOf(k) \cap classes # {}

HttpcoreErrors == {"httpcore.RemoteProtocolError", "httpcore.LocalProtocolError",
                   "httpcore.CloseError", "httpcore.WriteError", "httpcore.ReadError",
                   "httpcore.ConnectError", "httpcore.ReadTimeout"}
ProxyLibErrors == {"python_socks.ProxyConnectionError",
                   "python_socks.ProxyTimeoutError", "python_socks.ProxyError"}
\* what the transport under each variant can raise
ErrorsOf(v) ==
    IF v = "proxy" THEN {"socket.gaierror"} \cup HttpcoreErrors \cup ProxyLibErrors
    ELSE {"socket.gaierror"} \cup HttpcoreErrors

\* what an except clause does: raise a new exception, evict and go round the
\* loop again, evict and raise the exception caught; or no clause matches
RaiseNew(exc) == [act |-> "raise_new", exc |-> exc]
EvictRetry == [act |-> "evict_retry", exc |-> NoneObj]
EvictRaise == [act |-> "evict_raise", exc |-> NoneObj]
Propagate == [act |-> "propagate", exc |-> NoneObj]

\* lines 93-107 with the clause of OSError put first
ProxyHandlerOSErrorFirst(k) ==
    IF Matches(k, {"OSError"}) THEN RaiseNew("httpcore.NetworkError")
    ELSE IF Matches(k, {"python_socks.ProxyConnectionError",
                        "python_socks.ProxyTimeoutError", "python_socks.ProxyError"})
    THEN RaiseNew("httpcore.ProxyError")
    ELSE IF Matches(k, {"httpcore.RemoteProtocolError"}) THEN EvictRetry
    ELSE IF Matches(k, {"httpcore.NetworkError", "httpcore.ProtocolError"})
    THEN EvictRaise
    ELSE Propagate

\* lines 93-107 without the last clause (lines 103-107)
ProxyHandlerWithoutLastClause(k) ==
    IF Matches(k, {"python_socks.ProxyConnectionError",
                   "python_socks.ProxyTimeoutError", "python_socks.ProxyError"})
    THEN RaiseNew("httpcore.ProxyError")
    ELSE IF Matches(k, {"OSError"}) THEN RaiseNew("httpcore.NetworkError")
    ELSE IF Matches(k, {"httpcore.RemoteProtocolError"}) THEN EvictRetry
    ELSE Propagate

\* lines 93-107: the except clauses of AsyncProxyTransportFixed.arequest, in order
ProxyHandler(k) ==
    IF Matches(k, {"python_socks.ProxyConnectionError",
                   "python_socks.ProxyTimeoutError", "python_socks.ProxyError"})
    THEN RaiseNew("httpcore.ProxyError")
    ELSE IF Matches(k, {"OSError"}) THEN RaiseNew("httpcore.NetworkError")
    ELSE IF Matches(k, {"httpcore.RemoteProtocolError"}) THEN EvictRetry
    ELSE IF Matches(k, {"httpcore.NetworkError", "httpcore.ProtocolError"})
    THEN EvictRaise
    ELSE Propagate

\* lines 119-136 with lines 126 and 131 left out: a retry on the same pool
DirectHandlerRetryWithoutEvict(k) ==
    IF Matches(k, {"OSError"}) THEN RaiseNew("httpcore.ConnectError")
    ELSE IF Matches(k, {"httpcore.CloseError"})
    THEN [act |-> "retry", exc |-> NoneObj]
    ELSE IF Matches(k, {"httpcore.RemoteProtocolError"})
    THEN [act |-> "retry", exc |-> NoneObj]
    ELSE IF Matches(k, {"httpcore.ProtocolError", "httpcore.NetworkError"})
    THEN EvictRaise
    ELSE Propagate

\* lines 119-136: the except clauses of AsyncHTTPTransportFixed.arequest, in order
DirectHandler(k) ==
    IF Matches(k, {"OSError"}) THEN RaiseNew("httpcore.ConnectError")
    ELSE IF Matches(k, {"httpcore.CloseError"}) THEN EvictRetry
    ELSE IF Matches(k, {"httpcore.RemoteProtocolError"}) THEN EvictRetry
    ELSE IF Matches(k, {"httpcore.ProtocolError", "httpcore.NetworkError"})
    THEN EvictRaise
    ELSE Propagate

Handler(v, k) == IF v = "proxy" THEN ProxyHandler(k) ELSE DirectHandler(k)

\* lines 88 and 114: arequest is called
ArequestCall ==
    /\ tpc = "call"
    /\ retry' = RetryBudget
    /\ tpc' = "while"
    /\ UNCHANGED <<variant, url, attempts, evictions, pool, outcome>>
    /\ UNCHANGED <<svars, pvars, cvars, hvars>>

\* lines 89-90 and 115-116: the test of the loop; when it fails the function
\* reaches its end and returns None
ArequestWhile ==
    /\ tpc = "while"
    /\ IF retry > 0
       THEN /\ retry' = retry - 1
            /\ tpc' = "try"
            /\ outcome' = outcome
       ELSE /\ retry' = retry
            /\ tpc' = "done"
            /\ outcome' = [kind |-> "return", exc |-> NoneObj, attempt |-> 0]
    /\ UNCHANGED <<variant, url, attempts, evictions, pool>>
    /\ UNCHANGED <<svars, pvars, cvars, hvars>>

\* lines 91-107 and 117-136: one call of super().arequest, which may pool a new
\* connection to the origin, and what the try statement does with its result r
ArequestTry(r, opened) ==
    /\ tpc = "try"
    /\ attempts' = Append(attempts, r)
    /\ retry' = retry
    /\ IF r = "ok"
       THEN /\ outcome' = [kind |-> "response", exc |-> NoneObj,
                           attempt |-> Len(attempts')]
            /\ pool' = pool \cup opened
            /\ evictions' = evictions
            /\ tpc' = "done"
       ELSE LET h == Handler(variant, r)
                evict == h.act \in {"evict_retry", "evict_raise"}
            IN  /\ pool' = IF evict THEN CloseConnectionsForUrl(pool \cup opened, url)
                           ELSE pool \cup opened
                /\ evictions' = IF evict THEN evictions + 1 ELSE evictions
                /\ tpc' = IF h.act \in {"evict_retry", "retry"} THEN "while" ELSE "done"
                /\ outcome' =
                     CASE h.act = "raise_new" ->
                            [kind |-> "raise", exc |-> h.exc, attempt |-> 0]
                       [] h.act \in {"evict_raise", "propagate"} ->
                            [kind |-> "raise", exc |-> r, attempt |-> Len(attempts')]
                       [] OTHER -> outcome
    /\ UNCHANGED <<variant, url>>
    /\ UNCHANGED <<svars, pvars, cvars, hvars>>

\* no search runs while the transport is looked at
SearchIdle ==
    /\ engine_timeout = [e \in Engines |-> 1]
    /\ suspended = [e \in Engines |-> FALSE]
    /\ declines = [e \in Engines |-> FALSE]
    /\ timeout_limit = None
    /\ max_request_timeout = None
    /\ external_bang = FALSE
    /\ bang_url = NoneObj
    /\ answerers_results = <<>>
    /\ SearchCreated

InitTransport ==
    /\ variant \in {"direct", "proxy"}
    /\ url \in Origins
    /\ pool \in SUBSET Conns
    /\ retry = 0
    /\ tpc = "call"
    /\ attempts = <<>>
    /\ evictions = 0
    /\ outcome = [kind |-> "none", exc |-> NoneObj, attempt |-> 0]
    /\ SearchIdle
    /\ PoolIdle
    /\ ClientIdle
    /\ HooksOff

NextTransport ==
    \/ ArequestCall
    \/ ArequestWhile
    \/ \E r \in {"ok"} \cup ErrorsOf(variant) :
         \E opened \in {{}} \cup {{c} : c \in ConnectionsForOrigin(Conns \ pool, url)} :
            ArequestTry(r, opened)

SpecTransport == InitTransport /\ [][NextTransport]_vars

(***************************************************************************)
(* Properties of the transports                                            *)
(***************************************************************************)
\* the stale-connection class: keepalive-sweep close, server disconnected
StaleClass == {"httpcore.CloseError", "httpcore.RemoteProtocolError"}
\* the other protocol- and network-level errors
ProtocolClass == {"httpcore.LocalProtocolError", "httpcore.WriteError",
                  "httpcore.ReadError", "httpcore.ConnectError"}

\* arequest has dealt with the result of every call of super().arequest so far
Handled == tpc # "try"

\* C6: direct transport: when the first call fails with a CloseError or a
\* RemoteProtocolError the origin's connections are evicted and the request goes
\* round the loop again; when the second call then succeeds, the caller gets the
\* response of the second call, there was exactly one eviction and exactly two
\* calls.
C6_RetryAfterStaleSucceeds ==
    (variant = "direct" /\ Len(attempts) >= 1 /\ attempts[1] \in StaleClass) =>
        /\ Len(attempts) = 1 =>
              /\ tpc \in {"while", "try"}
              /\ outcome.kind = "none"
              /\ evictions = 1
              /\ tpc = "while" => ConnectionsForOrigin(pool, url) = {}
        /\ (Len(attempts) >= 2 /\ attempts[2] = "ok") =>
              /\ tpc = "done"
              /\ outcome = [kind |-> "response", exc |-> NoneObj, attempt |-> 2]
              /\ evictions = 1
              /\ Len(attempts) = 2

C6_Witness ==
    /\ variant = "direct"
    /\ attempts = <<"httpcore.CloseError", "ok">>
    /\ outcome.kind = "response"
    /\ outcome.attempt = 2

\* C7: both transports: a call that fails with a protocol- or network-level
\* error outside the stale class is the last call; the origin's connections are
\* evicted (once for this failure, once for each retried failure before it) and
\* the caller gets that very exception.
C7_ProtocolErrorEvictsAndRaises ==
    \A i \in 1 .. Len(attempts) : attempts[i] \in ProtocolClass =>
        /\ i = Len(attempts)
        /\ tpc = "done"
        /\ outcome = [kind |-> "raise", exc |-> attempts[i], attempt |-> i]
        /\ evictions = i
        /\ ConnectionsForOrigin(pool, url) = {}

C7_Witness ==
    /\ variant = "proxy"
    /\ attempts = <<"httpcore.RemoteProtocolError", "httpcore.WriteError">>
    /\ outcome.kind = "raise"
    /\ outcome.exc = "httpcore.WriteError"
    /\ evictions = 2

\* the errors each transport retries
Retried(v) == IF v = "proxy" THEN {"httpcore.RemoteProtocolError"} ELSE StaleClass

\* C8: the loop makes two calls at most; when both fail with a retried error the
\* second error is raised to the caller; arequest never returns without a
\* response.
C8_ExhaustedRetriesRaise ==
    /\ Len(attempts) <= RetryBudget
    /\ tpc = "done" =>
          /\ outcome.kind \in {"response", "raise"}
          /\ (\A i \in 1 .. Len(attempts) : attempts[i] \in Retried(variant)) =>
                /\ Len(attempts) = RetryBudget
                /\ outcome = [kind |-> "raise", exc |-> attempts[RetryBudget],
                              attempt |-> RetryBudget]

\* C9: proxy transport: a call that fails with an exception of python_socks is
\* the last call, the caller gets a new httpcore.ProxyError, and nothing is
\* evicted for it (the evictions are those of the retried failures before it).
C9_ProxyErrorSurfaced ==
    variant = "proxy" =>
        \A i \in 1 .. Len(attempts) : attempts[i] \in ProxyLibErrors =>
            /\ i = Len(attempts)
            /\ tpc = "done"
            /\ outcome = [kind |-> "raise", exc |-> "httpcore.ProxyError", attempt |-> 0]
            /\ evictions = i - 1

C9_Witness ==
    /\ variant = "proxy"
    /\ attempts = <<"httpcore.RemoteProtocolError", "python_socks.ProxyConnectionError">>
    /\ outcome.exc = "httpcore.ProxyError"
    /\ evictions = 1

\* C10: both transports: a call that fails with an OSError (DNS failure) is the
\* last call, the caller gets a new httpcore.ConnectError, and nothing is evicted
\* for it.
C10_OSErrorIsConnectError ==
    \A i \in 1 .. Len(attempts) : attempts[i] = "socket.gaierror" =>
        /\ i = Len(attempts)
        /\ tpc = "done"
        /\ outcome = [kind |-> "raise", exc |-> "httpcore.ConnectError", attempt |-> 0]
        /\ evictions = i - 1

\* C11: in the proxy transport as in the direct one, a call that fails with a
\* CloseError while the budget is not used up is followed by an eviction and
\* another turn of the loop: the caller has been given nothing yet.
C11_ProxyRetriesStale ==
    \A i \in 1 .. Len(attempts) :
        (attempts[i] = "httpcore.CloseError" /\ i < RetryBudget) =>
            /\ evictions >= i
            /\ i = Len(attempts) =>
                  /\ tpc \in {"while", "try"}
                  /\ outcome.kind = "none"

(***************************************************************************)
(* SpecPool: one run of close_connections_for_url(pool, url), step by      *)
(* step, while other requests of the event loop may pool new connections   *)
(* at its awaits.                                                          *)
(***************************************************************************)
\* lines 43-45: the connections of the URL's origin are listed once
EvictCall ==
    /\ ev_pc = "call"
    /\ pool0' = pool
    /\ to_close' = ConnectionsForOrigin(pool, url)
    /\ ev_pc' = IF to_close' = {} THEN "done" ELSE "loop"
    /\ UNCHANGED <<ev_cur, closed, close_warned>>
    /\ UNCHANGED <<variant, url, retry, tpc, attempts, evictions, pool, outcome>>
    /\ UNCHANGED <<svars, cvars, hvars>>

\* lines 46-47: the next connection of the list is removed from the pool
EvictRemove(c) ==
    /\ ev_pc = "loop"
    /\ c \in to_close
    /\ to_close' = to_close \ {c}
    /\ ev_cur' = c
    /\ pool' = pool \ {c}
    /\ ev_pc' = "close"
    /\ UNCHANGED <<pool0, closed, close_warned>>
    /\ UNCHANGED <<variant, url, retry, tpc, attempts, evictions, outcome>>
    /\ UNCHANGED <<svars, cvars, hvars>>

\* lines 48-49 without the try statement: a NetworkError of aclose() ends the run
EvictCloseRaises(ok) ==
    /\ ev_pc = "close"
    /\ closed' = IF ok THEN closed \cup {ev_cur} ELSE closed
    /\ ev_pc' = IF ~ok THEN "raised" ELSE IF to_close = {} THEN "done" ELSE "loop"
    /\ UNCHANGED <<pool0, to_close, ev_cur, close_warned>>
    /\ UNCHANGED <<svars, tvars, cvars, hvars>>

\* lines 48-51: the connection is closed; a NetworkError of aclose() is logged
EvictClose(ok) ==
    /\ ev_pc = "close"
    /\ closed' = IF ok THEN closed \cup {ev_cur} ELSE closed
    /\ close_warned' = IF ok THEN close_warned ELSE close_warned \cup {ev_cur}
    /\ ev_pc' = IF to_close = {} THEN "done" ELSE "loop"
    /\ UNCHANGED <<pool0, to_close, ev_cur>>
    /\ UNCHANGED <<svars, tvars, cvars, hvars>>

\* at an await of the run, another request pools a connection it has opened
OtherRequestOpens(c) ==
    /\ ev_pc \in {"loop", "close"}
    /\ c \in Conns \ (pool \cup pool0)
    /\ pool' = pool \cup {c}
    /\ UNCHANGED <<variant, url, retry, tpc, attempts, evictions, outcome>>
    /\ UNCHANGED <<svars, pvars, cvars, hvars>>

InitPool ==
    /\ variant \in {"direct", "proxy"}
    /\ url \in Origins
    /\ pool \in SUBSET Conns
    /\ retry = 0 /\ tpc = "idle" /\ attempts = <<>> /\ evictions = 0
    /\ outcome = [kind |-> "none", exc |-> NoneObj, attempt |-> 0]
    /\ ev_pc = "call" /\ pool0 = {} /\ to_close = {} /\ ev_cur = 0
    /\ closed = {} /\ close_warned = {}
    /\ SearchIdle
    /\ ClientIdle
    /\ HooksOff

NextPool ==
    \/ EvictCall
    \/ \E c \in Conns : EvictRemove(c)
    \/ \E ok \in BOOLEAN : EvictClose(ok)
    \/ \E c \in Conns : OtherRequestOpens(c)

SpecPool == InitPool /\ [][NextPool]_vars

\* the run of close_connections_for_url is over
EvictOver == ev_pc \notin {"call", "loop", "close"}

\* C12: when close_connections_for_url(pool, url) is over, every connection the
\* pool held for the URL's origin is out of the pool, whether its aclose()
\* returned or raised a NetworkError; throughout, only connections of that origin
\* are removed or closed, and every connection the pool held for another origin
\* is still in it and not closed.
C12_EvictsExactlyOrigin ==
    /\ EvictOver => \A c \in pool0 : ConnOrigin(c) = url =>
            /\ c \notin pool
            /\ c \in closed \cup close_warned
    /\ \A c \in closed \cup close_warned :
            /\ ConnOrigin(c) = url
            /\ c \in pool0
            /\ c \notin pool
    /\ ev_pc # "call" => \A c \in pool0 : ConnOrigin(c) # url =>
            /\ c \in pool
            /\ c \notin closed \cup close_warned

\* two connections of the origin are gone, one of them after a failed close, and
\* the connection of the other origin is still pooled
C12_Witness ==
    /\ ev_pc = "done"
    /\ closed # {}
    /\ close_warned # {}
    /\ \E c \in pool0 : ConnOrigin(c) # url /\ c \in pool

(***************************************************************************)
(* SpecClient, SpecClientSerial: init() and its loop thread, and threads   *)
(* that build transports (get_transport, get_transport_for_socks_proxy),   *)
(* which call get_sslcontexts and get_loop.  In SpecClientSerial a call    *)
(* starts only when no other is under way.                                 *)
(***************************************************************************)
CThreads == 1 .. NumThreads
SocksProxyUrl == "socks5://proxy.example:1080"
\* the keys (proxy_url, cert, verify, trust_env, http2) the two callers make
\* (lines 152 and 171)
Keys == {<<u, NoneObj, TRUE, FALSE, TRUE>> : u \in {NoneObj, SocksProxyUrl}}
TheLoop == "event loop"
\* a context object is the number of the create_ssl_context call that made it;
\* None stands for no object

\* line 58 without the test: the key is never found
KeyNeverInCache(key) == FALSE

\* line 58: key in SSLCONTEXTS
KeyInCache(key) == SSLCONTEXTS[key] # None

\* lines 232-248: init() starts the loop thread and returns
ClientInit ==
    /\ init_pc = "call"
    /\ loop_pc' = "started"
    /\ init_pc' = "returned"
    /\ UNCHANGED <<LOOP, serial, SSLCONTEXTS, ssl_builds, ssl_objs, ct_pc, ct_key,
                   ct_ctx, ct_result, ct_loop, ct_calls, ssl_got>>
    /\ UNCHANGED <<svars, tvars, pvars, hvars>>

\* lines 238-241: the loop thread creates the loop, stores it and runs it
LoopThread ==
    /\ loop_pc = "started"
    /\ LOOP' = TheLoop
    /\ loop_pc' = "run_forever"
    /\ UNCHANGED <<init_pc, serial, SSLCONTEXTS, ssl_builds, ssl_objs, ct_pc, ct_key,
                   ct_ctx, ct_result, ct_loop, ct_calls, ssl_got>>
    /\ UNCHANGED <<svars, tvars, pvars, hvars>>

\* lines 152 and 171: a thread builds a transport and calls get_sslcontexts
\* (line 57: the key); the module was imported, so init() has returned
CtCall(t, key) ==
    /\ init_pc = "returned"
    /\ ct_pc[t] = "idle"
    /\ ct_calls[t] < MaxCalls
    /\ serial => \A u \in CThreads : ct_pc[u] = "idle"
    /\ ct_key' = [ct_key EXCEPT ![t] = key]
    /\ ct_pc' = [ct_pc EXCEPT ![t] = "check"]
    /\ UNCHANGED <<init_pc, loop_pc, LOOP, serial, SSLCONTEXTS, ssl_builds, ssl_objs,
                   ct_ctx, ct_result, ct_loop, ct_calls, ssl_got>>
    /\ UNCHANGED <<svars, tvars, pvars, hvars>>

\* line 58: if key not in SSLCONTEXTS
SslCheck(t) ==
    /\ ct_pc[t] = "check"
    /\ ct_pc' = [ct_pc EXCEPT ![t] = IF KeyInCache(ct_key[t]) THEN "return" ELSE "build"]
    /\ UNCHANGED <<init_pc, loop_pc, LOOP, serial, SSLCONTEXTS, ssl_builds, ssl_objs,
                   ct_key, ct_ctx, ct_result, ct_loop, ct_calls, ssl_got>>
    /\ UNCHANGED <<svars, tvars, pvars, hvars>>

\* line 59, right-hand side: httpx.create_ssl_context(...) makes a new object
SslBuild(t) ==
    /\ ct_pc[t] = "build"
    /\ ssl_objs' = ssl_objs + 1
    /\ ct_ctx' = [ct_ctx EXCEPT ![t] = ssl_objs + 1]
    /\ ssl_builds' = [ssl_builds EXCEPT ![ct_key[t]] = @ + 1]
    /\ ct_pc' = [ct_pc EXCEPT ![t] = "store"]
    /\ UNCHANGED <<init_pc, loop_pc, LOOP, serial, SSLCONTEXTS, ct_key, ct_result,
                   ct_loop, ct_calls, ssl_got>>
    /\ UNCHANGED <<svars, tvars, pvars, hvars>>

\* line 59, the assignment: SSLCONTEXTS[key] = ...
SslStore(t) ==
    /\ ct_pc[t] = "store"
    /\ SSLCONTEXTS' = [SSLCONTEXTS EXCEPT ![ct_key[t]] = ct_ctx[t]]
    /\ ct_pc' = [ct_pc EXCEPT ![t] = "return"]
    /\ UNCHANGED <<init_pc, loop_pc, LOOP, serial, ssl_builds, ssl_objs, ct_key,
                   ct_ctx, ct_result, ct_loop, ct_calls, ssl_got>>
    /\ UNCHANGED <<svars, tvars, pvars, hvars>>

\* line 60: return SSLCONTEXTS[key]; get_transport then builds the transport
\* (lines 172-181), get_transport_for_socks_proxy goes on to get_loop()
SslReturn(t) ==
    /\ ct_pc[t] = "return"
    /\ ct_result' = [ct_result EXCEPT ![t] = SSLCONTEXTS[ct_key[t]]]
    /\ ssl_got' = ssl_got \cup {<<ct_key[t], SSLCONTEXTS[ct_key[t]]>>}
    /\ IF ct_key[t][1] = SocksProxyUrl
       THEN /\ ct_pc' = [ct_pc EXCEPT ![t] = "get_loop"]
            /\ ct_calls' = ct_calls
       ELSE /\ ct_pc' = [ct_pc EXCEPT ![t] = "idle"]
            /\ ct_calls' = [ct_calls EXCEPT ![t] = @ + 1]
    /\ UNCHANGED <<init_pc, loop_pc, LOOP, serial, SSLCONTEXTS, ssl_builds, ssl_objs,
                   ct_key, ct_ctx, ct_loop>>
    /\ UNCHANGED <<svars, tvars, pvars, hvars>>

\* lines 153-166 and 227-229: AsyncProxyTransportFixed(..., loop=get_loop(), ...)
GetLoop(t) ==
    /\ ct_pc[t] = "get_loop"
    /\ ct_loop' = [ct_loop EXCEPT ![t] = LOOP]
    /\ ct_pc' = [ct_pc EXCEPT ![t] = "idle"]
    /\ ct_calls' = [ct_calls EXCEPT ![t] = @ + 1]
    /\ UNCHANGED <<init_pc, loop_pc, LOOP, serial, SSLCONTEXTS, ssl_builds, ssl_objs,
                   ct_key, ct_ctx, ct_result, ssl_got>>
    /\ UNCHANGED <<svars, tvars, pvars, hvars>>

\* client.py as the import starts: LOOP = None, SSLCONTEXTS = {}, init() to be run
ClientLoaded ==
    /\ init_pc = "call"
    /\ loop_pc = "not started"
    /\ LOOP = NoneObj
    /\ SSLCONTEXTS = [k \in Keys |-> None]
    /\ ssl_builds = [k \in Keys |-> 0]
    /\ ssl_objs = 0
    /\ ct_pc = [t \in CThreads |-> "idle"]
    /\ ct_key = [t \in CThreads |-> <<NoneObj, NoneObj, TRUE, FALSE, TRUE>>]
    /\ ct_ctx = [t \in CThreads |-> 0]
    /\ ct_result = [t \in CThreads |-> None]
    /\ ct_loop = [t \in CThreads |-> "no transport"]
    /\ ct_calls = [t \in CThreads |-> 0]
    /\ ssl_got = {}
    /\ SearchIdle
    /\ TransportIdle
    /\ PoolIdle
    /\ HooksOff

InitClient == ClientLoaded /\ serial = FALSE
InitClientSerial == ClientLoaded /\ serial = TRUE

NextClient ==
    \/ ClientInit
    \/ LoopThread
    \/ \E t \in CThreads : \E key \in Keys : CtCall(t, key)
    \/ \E t \in CThreads : SslCheck(t)
    \/ \E t \in CThreads : SslBuild(t)
    \/ \E t \in CThreads : SslStore(t)
    \/ \E t \in CThreads : SslReturn(t)
    \/ \E t \in CThreads : GetLoop(t)

SpecClient == InitClient /\ [][NextClient]_vars
SpecClientSerial == InitClientSerial /\ [][NextClient]_vars

\* C13: calls of get_sslcontexts one after the other: two calls with the same
\* key return the same object, httpx.create_ssl_context is called at most once
\* per key (on the first call, which alone finds no entry), and an entry, once
\* stored, is neither removed nor replaced.
C13_StateInv ==
    /\ \A p \in ssl_got : \A q \in ssl_got : p[1] = q[1] => p[2] = q[2]
    /\ \A k \in Keys :
          /\ ssl_builds[k] <= 1
          /\ SSLCONTEXTS[k] # None => ssl_builds[k] = 1
          /\ (\E p \in ssl_got : p[1] = k) => <<k, SSLCONTEXTS[k]>> \in ssl_got

C13_CacheIdempotent ==
    /\ []C13_StateInv
    /\ [][\A k \in Keys : SSLCONTEXTS[k] # None => SSLCONTEXTS'[k] = SSLCONTEXTS[k]]_vars

\* two threads have asked for the same key, one after the other, and hold the
\* same object, made by the only create_ssl_context call for that key
C13_Witness ==
    \E t \in CThreads : \E u \in CThreads \ {t} :
        /\ ct_calls[t] >= 1 /\ ct_calls[u] >= 1
        /\ ct_pc[t] = "idle" /\ ct_pc[u] = "idle"
        /\ ct_key[t] = ct_key[u]
        /\ ct_result[t] # None
        /\ ct_result[t] = ct_result[u]
        /\ ssl_builds[ct_key[t]] = 1

\* C17: calls of get_sslcontexts from several threads, interleaved in any way:
\* create_ssl_context is called at most once per key, every caller of a key gets
\* the same object, and a stored entry is never overwritten.
C17_StateInv ==
    /\ \A k \in Keys : ssl_builds[k] <= 1
    /\ \A p \in ssl_got : \A q \in ssl_got : p[1] = q[1] => p[2] = q[2]

C17_AtomicInsertIfAbsent ==
    /\ []C17_StateInv
    /\ [][\A k \in Keys : SSLCONTEXTS[k] # None => SSLCONTEXTS'[k] = SSLCONTEXTS[k]]_vars

\* C18: init() has returned before any transport is built; every transport built
\* by get_transport_for_socks_proxy got the event loop from get_loop(), never None.
C18_LoopNeverNone ==
    \A t \in CThreads : ct_loop[t] \in {"no transport", TheLoop}

(***************************************************************************)
(* SpecPlugins: SearchWithPlugins.search (lines 184-195) around the search *)
(* of Spec.  hooks is the log of the plugins.call calls, in order.         *)
(***************************************************************************)
\* line 185 with the answer of the hook ignored
PreSearchIgnoresVeto ==
    /\ hook_pc = "pre_search"
    /\ hooks' = Append(hooks, <<"pre_search", <<>>>>)
    /\ hook_pc' = "super"
    /\ UNCHANGED <<svars, tvars, pvars, cvars, pre_search_ok, ordered, th_args>>

\* line 185: plugins.call(..., 'pre_search', ...) decides whether to search
PreSearch ==
    /\ hook_pc = "pre_search"
    /\ hooks' = Append(hooks, <<"pre_search", <<>>>>)
    /\ hook_pc' = IF pre_search_ok THEN "super" ELSE "post_search"
    /\ UNCHANGED <<svars, tvars, pvars, cvars, pre_search_ok, ordered, th_args>>

\* lines 186 and 171: super().search() returns
SuperSearchReturns ==
    /\ hook_pc = "super"
    /\ pc = "done"
    /\ hook_pc' = "post_search"
    /\ UNCHANGED <<svars, tvars, pvars, cvars, pre_search_ok, hooks, ordered, th_args>>

\* line 188: plugins.call(..., 'post_search', ...)
PostSearch ==
    /\ hook_pc = "post_search"
    /\ hooks' = Append(hooks, <<"post_search", <<>>>>)
    /\ hook_pc' = "get_ordered_results"
    /\ UNCHANGED <<svars, tvars, pvars, cvars, pre_search_ok, ordered, th_args>>

\* ResultContainer.get_ordered_results(): the entries the container holds
get_ordered_results(c) == c

\* line 190: results = self.result_container.get_ordered_results()
GetOrderedResults ==
    /\ hook_pc = "get_ordered_results"
    /\ ordered' = get_ordered_results(container)
    /\ hook_pc' = "on_result"
    /\ UNCHANGED <<svars, tvars, pvars, cvars, pre_search_ok, hooks, th_args>>

\* how many times on_result was called
OnResultCalls == Len(SelectSeq(hooks, LAMBDA h : h[1] = "on_result"))

\* lines 192-193: one turn of the loop over results
OnResult ==
    /\ hook_pc = "on_result"
    /\ OnResultCalls < Len(ordered)
    /\ hooks' = Append(hooks, <<"on_result", ordered[OnResultCalls + 1]>>)
    /\ UNCHANGED <<svars, tvars, pvars, cvars, hook_pc, pre_search_ok, ordered, th_args>>

\* lines 192 and 195: the loop is over, the container is returned
PluginsReturn ==
    /\ hook_pc = "on_result"
    /\ OnResultCalls = Len(ordered)
    /\ hook_pc' = "returned"
    /\ UNCHANGED <<svars, tvars, pvars, cvars, pre_search_ok, hooks, ordered, th_args>>

InitPlugins ==
    /\ engine_timeout \in [Engines -> {1}]
    /\ suspended \in [Engines -> BOOLEAN]
    /\ declines = [e \in Engines |-> FALSE]
    /\ timeout_limit = None
    /\ max_request_timeout = None
    /\ external_bang \in BOOLEAN
    /\ bang_url \in {NoneObj} \cup BangUrls
    /\ ~external_bang => bang_url = NoneObj
    /\ answerers_results \in SeqsUpTo(AnswerResults, MaxAnswers)
    /\ SearchCreated
    /\ TransportIdle
    /\ PoolIdle
    /\ ClientIdle
    /\ hook_pc = "pre_search"
    /\ pre_search_ok \in BOOLEAN
    /\ hooks = <<>>
    /\ ordered = <<>>

NextPlugins ==
    \/ PreSearch
    \/ SuperSearchReturns
    \/ PostSearch
    \/ GetOrderedResults
    \/ OnResult
    \/ PluginsReturn
    \/ Next

SpecPlugins == InitPlugins /\ [][NextPlugins]_vars

\* the positions of the hook named n in the log
HookCalls(n) == {i \in 1 .. Len(hooks) : hooks[i][1] = n}

\* get_ordered_results() was called
ResultsRead == hook_pc \in {"on_result", "returned"}

\* C14: SearchWithPlugins.search calls pre_search first and exactly once; the
\* bang/answerer/standard flow runs if and only if pre_search returned true;
\* post_search is called exactly once in either case, after the flow and its
\* join step and before any on_result; on_result is called exactly once for
\* each entry of get_ordered_results(), in that order.
C14_HookOrder ==
    \* pre_search: first, once
    /\ Cardinality(HookCalls("pre_search")) = IF hook_pc = "pre_search" THEN 0 ELSE 1
    /\ hooks # <<>> => hooks[1][1] = "pre_search"
    /\ called # {} => HookCalls("pre_search") = {1}
    \* the flow runs iff pre_search returned true
    /\ ~pre_search_ok => pc = "created" /\ called = {}
    /\ (pre_search_ok /\ hook_pc \notin {"pre_search", "super"}) =>
          pc = "done" /\ "search" \in called
    \* post_search: once, second, after the flow and the joins
    /\ Cardinality(HookCalls("post_search")) =
          IF hook_pc \in {"pre_search", "super", "post_search"} THEN 0 ELSE 1
    /\ HookCalls("post_search") \subseteq {2}
    /\ (HookCalls("post_search") # {} /\ pre_search_ok) =>
          pc = "done" /\ tojoin = {} /\ \A e \in Engines : IsAlive(e) => e \in th_timeout
    \* on_result: after post_search, once per entry, in the order of the list
    /\ HookCalls("on_result") = 3 .. Len(hooks)
    /\ HookCalls("on_result") # {} => ResultsRead
    /\ Len(hooks) - 2 <= Len(ordered)
    /\ \A i \in 1 .. Len(hooks) - 2 : hooks[i + 2] = <<"on_result", ordered[i]>>
    /\ hook_pc = "returned" => Len(hooks) = Len(ordered) + 2
    \* the list is read after the join step only
    /\ (ResultsRead /\ pre_search_ok) => pc = "done"

\* the search ran, two engines answered and on_result was called for both
C14_Witness ==
    /\ hook_pc = "returned"
    /\ pre_search_ok
    /\ Len(ordered) = 2
    /\ Len(hooks) = 4
    /\ th_args # <<>>

\* a step of the thread that runs Search.search, or time passing while it waits
OrchestratorStep ==
    \/ Search
    \/ SearchExternalBang
    \/ SearchAnswerers
    \/ SearchStandard
    \/ SpawnWorker
    \/ Enumerate
    \/ JoinStart
    \/ JoinReturn
    \/ CheckAlive
    \/ Tick

\* the worker of engine e extended the container with results
GaveResults(e) ==
    \E i \in 1 .. Len(container) : container[i][2] = "results" /\ container[i][1] = e

WorkerEngines == [i \in 1 .. Len(th_args) |-> th_args[i][1]]

\* the loop of lines 133-141 is over
FanOutDone ==
    /\ "search_standard" \in called
    /\ pc \in {"enumerate", "join", "joining", "is_alive", "done"}

\* C16: search_standard spawns exactly one worker for each accepted engine (not
\* suspended, get_params not None), every worker with the same start_time and
\* actual_timeout (and the one container); a suspended engine is never asked for
\* parameters; an engine that is suspended or declines gets no worker and does
\* not count in default_timeout; with no engine accepted no worker is spawned and
\* the search returns at once.
C16_OneWorkerPerAcceptedEngine ==
    /\ \A i \in 1 .. Len(th_args) :
          /\ th_args[i][1] \in Accepted
          /\ th_args[i][2] = start_time
          /\ th_args[i][3] = actual_timeout
          /\ \A j \in 1 .. Len(th_args) : th_args[i][1] = th_args[j][1] => i = j
    /\ Spawned = {WorkerEngines[i] : i \in 1 .. Len(th_args)}
    /\ FanOutDone => Spawned = Accepted
    /\ \A e \in asked : ~suspended[e]
    /\ "search_standard" \in called => asked = {e \in Engines : ~suspended[e]}
    /\ GetRequestsResult.default_timeout = AcceptedMax
    /\ ("search_standard" \in called /\ Accepted = {}) => pc = "done" /\ th_args = <<>>
    /\ "search_standard" \notin called => th_args = <<>>

\* one engine is suspended and got no worker, the other one got its worker
C16_Witness ==
    /\ pc = "done"
    /\ Len(th_args) = 1
    /\ \E e \in Engines : suspended[e] /\ e \notin asked /\ th[e] = "none"
    /\ \E e \in Accepted : th[e] # "none"
    /\ now > start_time

C20_StateInv ==
    \A e \in Engines :
        /\ e \in th_timeout <=> <<e, "timeout">> \in unresponsive
        /\ e \in th_timeout => e \in Spawned /\ now >= Deadline

\* C20: no false timeout: a worker is marked timed out, and (engine, 'timeout')
\* recorded, only while it is still running at or after the query-wide deadline
\* start_time + actual_timeout; a worker that ended before the deadline is never
\* marked, in whatever order the workers are joined.
C20_NoFalseTimeout ==
    /\ []C20_StateInv
    /\ [][\A e \in Engines :
            (e \in th_timeout' \ th_timeout
               \/ <<e, "timeout">> \in unresponsive' \ unresponsive) =>
                  IsAlive(e) /\ now >= Deadline]_vars

\* two workers were joined: one had ended in time and is not marked, the other
\* one was still running at the deadline and is
C20_Witness ==
    /\ pc = "done"
    /\ \E e \in Spawned :
          /\ th[e] = "ended"
          /\ e \notin th_timeout
          /\ <<e, "timeout">> \notin unresponsive
    /\ \E e \in Spawned : e \in th_timeout
====
